---------------------------- MODULE Spec2Model ----------------------------
(***************************************************************************)
(* AutoDevCrew: the Orchestrator of src/autodevcrew1/main.py, the          *)
(* AutoDevCrew.process_task driver around it and the Task Store of         *)
(* src/autodevcrew1/db/storage.py.                                         *)
(*                                                                         *)
(* One AutoDevCrew object owns one Orchestrator, whose `history` list is   *)
(* created once in __init__.  A run is one call of process_task.  A run    *)
(* is a coroutine: it executes atomically from one `await` of a capability *)
(* to the next, so every action below is the code between two awaits.      *)
(* The capabilities (the agents dict handed to Orchestrator) are opaque:   *)
(* each call either returns a value drawn from a small set or raises.      *)
(***************************************************************************)
EXTENDS Integers, Sequences, FiniteSets, TLC

\* ------------------------------------------------------------------ bounds
\* Number of process_task calls made on the one AutoDevCrew instance.
MaxRuns == 2

Runs == 1..MaxRuns

\* ------------------------------------------------------- capability values
\* Task descriptions handed to process_task (the empty one included).
Descriptions == {"", "Create a login system"}

\* The generate capability (agents/engineer_agent.py): a function of the task
\* description, total over text, which returns the artifact "def login(): pass"
\* for a login task and the empty artifact for the empty description.
generate_code(d) == IF d = "" THEN "" ELSE "def login(): pass"

\* Artifacts the generate capability may return.
Artifacts == {generate_code(d) : d \in Descriptions}

\* (valid, report) pairs the validate capability may return.
ValidationReports == {<<TRUE, "Syntax Check: PASSED">>, <<FALSE, "Syntax Error">>}

\* (success, log) pairs the deploy capability may return.
DeploymentOutcomes == {<<TRUE, "Deployed to Virtual Environment!">>,
                       <<FALSE, "Tests Failed">>}

\* A Python value inside a summary record: its type and its text.  Of a
\* tuple, a list or a set the text stands for the elements.
PyStr(t) == <<"str", t>>
PyInt(t) == <<"int", t>>
PyTuple(t) == <<"tuple", t>>
PyList(t) == <<"list", t>>
PySet(t) == <<"set", t>>

\* A summary record (a dict) is the sequence of its (key, value) entries.
\* The record summarize returns has the human-readable field summary_report.
SummaryRecord(text) == << <<PyStr("summary_report"), PyStr(text)>> >>

\* Summary records the summarize capability may return.  The Orchestrator
\* passes the record on unread, so it is named by the text of its report.
Summaries == {"summary_report"}

\* A local variable that has not been assigned yet.
Unset == "<unset>"

\* Python's None for an optional record, and a present value.
None == <<>>
Some(x) == <<x>>

\* ------------------------------------------------------------------- state
VARIABLES
    history,           \* Orchestrator.history: the list of Message
    pc,                \* per run: the stage the run is suspended in
    task_description,  \* per run: the argument of process_task / execute
    task_id,           \* per run: process_task's task_id (0: not assigned)
    code,              \* per run: execute's local `code`
    valid,             \* per run: execute's local `valid`
    report,            \* per run: execute's local `report`
    deploy_status,     \* per run: execute's local `deploy_status`
    deploy_success,    \* per run: execute's local `deploy_success`
    summary,           \* per run: execute's local `summary`
    result,            \* per run: process_task's local `result` (None before execute returns)
    raised,            \* per run: the exception that left process_task ("none" if none)
    calls,             \* per run: the capability calls, returns and raises observed (spy)
    tasks,             \* Task Store table tasks: row i holds the description of task id i
    generated_code,    \* Task Store table generated_code: rows [task_id, value]
    test_logs,         \* Task Store table test_logs
    deployment_logs,   \* Task Store table deployment_logs
    final_reports,     \* Task Store table final_reports
    validation,        \* the last call of validate_code: its inputs and outcome (None: no call yet)
    deployment,        \* the last call of build_and_deploy: its inputs and outcome (None: no call yet)
    recorded,          \* the (task_id, summary) pairs save_final_report was given and stored
    storage_call,      \* the last direct call of a db/storage.py function and its outcome
    session,           \* the Streamlit script run: its locals, position and observed calls
    privacy            \* the last ensure_local_execution question and its answers (None: none yet)

locals == <<task_description, task_id, code, valid, report, deploy_status,
            deploy_success, summary>>
store == <<tasks, generated_code, test_logs, deployment_logs, final_reports>>
agent_calls == <<validation, deployment, recorded, storage_call, session, privacy>>
vars == <<history, pc, locals, result, raised, calls, store, agent_calls>>

\* ---------------------------------------------------------------- Message
\* Message.__init__: msg_type defaults to "data".  `run` is not a field of the
\* program's Message: it records which run appended the entry.  The timestamp
\* (the working directory's mtime) is read by no operation and is left out.
Message(sender, receiver, content, r) ==
    [sender |-> sender, receiver |-> receiver, content |-> content,
     msg_type |-> "data", run |-> r]

\* Bug variant: the new Message is put in front of the list.
AddToHistoryFront(h, sender, receiver, content, r) ==
    <<Message(sender, receiver, content, r)>> \o h

\* Orchestrator._add_to_history: one Message appended at the end.
AddToHistory(h, sender, receiver, content, r) ==
    Append(h, Message(sender, receiver, content, r))


\* ------------------------------------------------------------- Task Store
\* Bug variant: the id is taken from a counter that is never advanced.
lastrowid_stuck(tbl) == 1

\* sqlite AUTOINCREMENT on an insert-only table: the new row's id is the
\* number of rows plus one.
lastrowid(tbl) == Len(tbl) + 1

\* save_task: INSERT INTO tasks (description); returns cursor.lastrowid.
save_task(tbl, description) == Append(tbl, description)

\* save_code / save_test_log / save_deployment_log: INSERT (task_id, value).
save_row(tbl, id, value) == Append(tbl, [task_id |-> id, value |-> value])

\* json.dumps(summary) raises TypeError for a key that is not a str or a
\* number and for a value of a type JSON has no form for.
Serializable(s) ==
    \A i \in 1..Len(s) : s[i][1][1] \in {"str", "int"} /\ s[i][2][1] # "set"

\* json.dumps of the summary record, as save_final_report stores it: a JSON
\* object.  Every key becomes a JSON string (an int key is written as its
\* decimal text); a str value becomes a string, an int a number, a tuple and
\* a list both become an array.
json_dumps(s) ==
    [i \in 1..Len(s) |->
        <<s[i][1][2],
          CASE s[i][2][1] = "str" -> <<"string", s[i][2][2]>>
            [] s[i][2][1] = "int" -> <<"number", s[i][2][2]>>
            [] s[i][2][1] \in {"tuple", "list"} -> <<"array", s[i][2][2]>> >>]

\* json.loads of such a text: a dict with str keys; a string comes back as a
\* str, a number as an int, an array as a list.
json_loads(j) ==
    [i \in 1..Len(j) |->
        <<PyStr(j[i][1]),
          CASE j[i][2][1] = "string" -> PyStr(j[i][2][2])
            [] j[i][2][1] = "number" -> PyInt(j[i][2][2])
            [] j[i][2][1] = "array" -> PyList(j[i][2][2])>>]

\* save_final_report: the summary is serialized, then inserted.
save_final_report(tbl, id, s) == save_row(tbl, id, json_dumps(s))

\* The writes of process_task after execute returned, in program order:
\* 1 save_code, 2 save_test_log, 3 save_deployment_log, 4 save_final_report.
\* fail = 0: every write succeeds; fail = k: write k raises, so writes 1..k-1
\* were committed and writes k..4 never happen.
WrittenAfter(fail, k) == fail = 0 \/ k > fail   \* bug variant: the writes after the failed one
Written(fail, k) == fail = 0 \/ k < fail
StoreFaults == 0..4

\* --------------------------------------------------------------- the spy
\* One observed event of a capability: it was called (data: the arguments),
\* it returned (data: the returned value or pair), or it raised.
Ev(ev, cap, data) == [ev |-> ev, cap |-> cap, data |-> data]

\* The observed call of _add_to_history(sender, receiver, ...), in the same
\* per-run log, so that the log orders handoffs and capability calls.
Handoff(sender, receiver) == Ev("handoff", "_add_to_history", <<sender, receiver>>)

\* Bug variant: the capability is invoked first, the handoff recorded after.
CallThenRecord(handoff, call) == <<call, handoff>>

\* Statement order in execute: self._add_to_history(...) and then the await
\* of the capability the handoff hands over to.
RecordThenCall(handoff, call) == <<handoff, call>>

\* ------------------------------------------------------- Orchestrator.execute
\* Bug variant: the else branch assigns nothing, the initial status stays.
BlockedStatusWaiting == "Waiting..."

\* The synthesized status of the gate's else branch.
BlockedStatus == "Blocked: Code Validation Failed"

\* Bug variants of the gate: deploy whatever validation said; never deploy.
ShouldDeployAlways(v) == TRUE
ShouldDeployNever(v) == FALSE

\* The gate `if valid:` deciding whether the deploy capability is invoked.
ShouldDeploy(v) == v

\* Bug variant: `or` instead of `and`.
OverallSuccessEither(v, ds) == v \/ ds

\* "success": valid and deploy_success.
OverallSuccess(v, ds) == v /\ ds

\* Bug variant: the artifact and the validation report change places.
MakeResultSwapped(v, ds, task, c, rep, status, s, h) ==
    [success |-> OverallSuccess(v, ds),
     task |-> task,
     generated_code |-> rep,
     test_report |-> c,
     deployment_status |-> status,
     summary |-> s,
     history |-> h]

\* The result dictionary execute builds and returns; history is a new list
\* built from the Orchestrator's whole history list.
MakeResult(v, ds, task, c, rep, status, s, h) ==
    [success |-> OverallSuccess(v, ds),
     task |-> task,
     generated_code |-> c,
     test_report |-> rep,
     deployment_status |-> status,
     summary |-> s,
     history |-> h]

\* The Streamlit script before the form is submitted.
SessionInit ==
    [pc |-> "idle", task_desc |-> Unset, code |-> Unset, valid |-> FALSE,
     test_results |-> Unset, deploy_success |-> FALSE, deploy_status |-> Unset,
     summary |-> Unset, task_id |-> 0, selected_task |-> 0, warning |-> FALSE,
     calls |-> <<>>]

Init ==
    /\ history = <<>>
    /\ pc = [r \in Runs |-> "idle"]
    /\ task_description = [r \in Runs |-> Unset]
    /\ task_id = [r \in Runs |-> 0]
    /\ code = [r \in Runs |-> Unset]
    /\ valid = [r \in Runs |-> FALSE]
    /\ report = [r \in Runs |-> Unset]
    /\ deploy_status = [r \in Runs |-> Unset]
    /\ deploy_success = [r \in Runs |-> FALSE]
    /\ summary = [r \in Runs |-> Unset]
    /\ result = [r \in Runs |-> None]
    /\ raised = [r \in Runs |-> "none"]
    /\ calls = [r \in Runs |-> <<>>]
    /\ tasks = <<>>
    /\ generated_code = <<>>
    /\ test_logs = <<>>
    /\ deployment_logs = <<>>
    /\ final_reports = <<>>
    /\ validation = None
    /\ deployment = None
    /\ recorded = <<>>
    /\ storage_call = None
    /\ session = SessionInit
    /\ privacy = None

\* process_task is called with description d.  save_task runs before the try
\* block; if it raises, process_task raises at once.  Otherwise execute starts:
\* it records User -> Engineer and awaits the generate capability.
process_task(r, d, saved) ==
    /\ pc[r] = "idle"
    /\ \A q \in Runs : q < r => pc[q] # "idle"   \* runs are numbered in call order
    /\ task_description' = [task_description EXCEPT ![r] = d]
    /\ IF saved
       THEN /\ tasks' = save_task(tasks, d)
            /\ task_id' = [task_id EXCEPT ![r] = lastrowid(tasks)]
            /\ history' = AddToHistory(history, "User", "Engineer", d, r)
            /\ calls' = [calls EXCEPT ![r] =
                            @ \o RecordThenCall(Handoff("User", "Engineer"),
                                                Ev("call", "generate", <<d>>))]
            /\ pc' = [pc EXCEPT ![r] = "generating"]
            /\ UNCHANGED raised
       ELSE /\ raised' = [raised EXCEPT ![r] = "PersistenceFault"]
            /\ pc' = [pc EXCEPT ![r] = "raised"]
            /\ UNCHANGED <<tasks, task_id, history, calls>>
    /\ UNCHANGED <<code, valid, report, deploy_status, deploy_success, summary,
                   result, generated_code, test_logs, deployment_logs, final_reports,
                   agent_calls>>

\* generate returned c: record Engineer -> Tester, await validate(code).
generate_returns(r, c) ==
    /\ pc[r] = "generating"
    /\ code' = [code EXCEPT ![r] = c]
    /\ history' = AddToHistory(history, "Engineer", "Tester", c, r)
    /\ calls' = [calls EXCEPT ![r] =
                    @ \o <<Ev("return", "generate", <<c>>)>>
                      \o RecordThenCall(Handoff("Engineer", "Tester"),
                                        Ev("call", "validate", <<c>>))]
    /\ pc' = [pc EXCEPT ![r] = "validating"]
    /\ UNCHANGED <<task_description, task_id, valid, report, deploy_status,
                   deploy_success, summary, result, raised, store, agent_calls>>

\* validate returned (v, rep): record Tester -> DevOps; then the gate.  With
\* valid true the deploy capability is awaited; otherwise the blocked status is
\* synthesized, DevOps -> Summarizer is recorded and summarize is awaited.
validate_returns(r, v, rep) ==
    /\ pc[r] = "validating"
    /\ valid' = [valid EXCEPT ![r] = v]
    /\ report' = [report EXCEPT ![r] = rep]
    /\ deploy_success' = [deploy_success EXCEPT ![r] = FALSE]
    /\ LET h1 == AddToHistory(history, "Tester", "DevOps", rep, r)
           ret == Ev("return", "validate", <<v, rep>>)
       IN IF ShouldDeploy(v)
          THEN /\ deploy_status' = [deploy_status EXCEPT ![r] = "Waiting..."]
               /\ history' = h1
               /\ calls' = [calls EXCEPT ![r] =
                               @ \o <<ret>>
                                 \o RecordThenCall(Handoff("Tester", "DevOps"),
                                                   Ev("call", "deploy", <<code[r]>>))]
               /\ pc' = [pc EXCEPT ![r] = "deploying"]
          ELSE /\ deploy_status' = [deploy_status EXCEPT ![r] = BlockedStatus]
               /\ history' = AddToHistory(h1, "DevOps", "Summarizer", BlockedStatus, r)
               /\ calls' = [calls EXCEPT ![r] =
                               @ \o <<ret, Handoff("Tester", "DevOps")>>
                                 \o RecordThenCall(Handoff("DevOps", "Summarizer"),
                                        Ev("call", "summarize",
                                           <<task_description[r], code[r], rep, BlockedStatus>>))]
               /\ pc' = [pc EXCEPT ![r] = "summarizing"]
    /\ UNCHANGED <<task_description, task_id, code, summary, result, raised, store,
                   agent_calls>>

\* Bug variant: a deployment that failed sends the run back to validation
\* (the artifact is validated again) instead of on to the summary.
deploy_returns_revalidate(r, ds, log) ==
    /\ pc[r] = "deploying"
    /\ deploy_success' = [deploy_success EXCEPT ![r] = ds]
    /\ deploy_status' = [deploy_status EXCEPT ![r] = log]
    /\ IF ds
       THEN /\ history' = AddToHistory(history, "DevOps", "Summarizer", log, r)
            /\ calls' = [calls EXCEPT ![r] =
                            @ \o <<Ev("return", "deploy", <<ds, log>>)>>
                              \o RecordThenCall(Handoff("DevOps", "Summarizer"),
                                     Ev("call", "summarize",
                                        <<task_description[r], code[r], report[r], log>>))]
            /\ pc' = [pc EXCEPT ![r] = "summarizing"]
       ELSE /\ history' = history
            /\ calls' = [calls EXCEPT ![r] =
                            @ \o <<Ev("return", "deploy", <<ds, log>>),
                                   Ev("call", "validate", <<code[r]>>)>>]
            /\ pc' = [pc EXCEPT ![r] = "validating"]
    /\ UNCHANGED <<task_description, task_id, code, valid, report, summary,
                   result, raised, store, agent_calls>>

\* deploy returned (ds, log): record DevOps -> Summarizer, await summarize.
deploy_returns(r, ds, log) ==
    /\ pc[r] = "deploying"
    /\ deploy_success' = [deploy_success EXCEPT ![r] = ds]
    /\ deploy_status' = [deploy_status EXCEPT ![r] = log]
    /\ history' = AddToHistory(history, "DevOps", "Summarizer", log, r)
    /\ calls' = [calls EXCEPT ![r] =
                    @ \o <<Ev("return", "deploy", <<ds, log>>)>>
                      \o RecordThenCall(Handoff("DevOps", "Summarizer"),
                             Ev("call", "summarize",
                                <<task_description[r], code[r], report[r], log>>))]
    /\ pc' = [pc EXCEPT ![r] = "summarizing"]
    /\ UNCHANGED <<task_description, task_id, code, valid, report, summary,
                   result, raised, store, agent_calls>>

\* summarize returned s: record Summarizer -> User, build the result and return
\* it to process_task, which writes the four artifacts and returns the result.
\* A write that raises is caught by `except Exception`, logged and re-raised.
summarize_returns(r, s, fail) ==
    /\ pc[r] = "summarizing"
    /\ summary' = [summary EXCEPT ![r] = s]
    /\ LET h == AddToHistory(history, "Summarizer", "User", s, r)
           res == MakeResult(valid[r], deploy_success[r], task_description[r],
                             code[r], report[r], deploy_status[r], s, h)
       IN /\ history' = h
          /\ result' = [result EXCEPT ![r] = Some(res)]
          /\ generated_code' = IF Written(fail, 1)
                               THEN save_row(generated_code, task_id[r], res.generated_code)
                               ELSE generated_code
          /\ test_logs' = IF Written(fail, 2)
                          THEN save_row(test_logs, task_id[r], res.test_report)
                          ELSE test_logs
          /\ deployment_logs' = IF Written(fail, 3)
                                THEN save_row(deployment_logs, task_id[r], res.deployment_status)
                                ELSE deployment_logs
          /\ final_reports' = IF Written(fail, 4)
                              THEN save_final_report(final_reports, task_id[r],
                                                     SummaryRecord(res.summary))
                              ELSE final_reports
    /\ calls' = [calls EXCEPT ![r] =
                    @ \o <<Ev("return", "summarize", <<s>>), Handoff("Summarizer", "User")>>]
    /\ IF fail = 0
       THEN /\ pc' = [pc EXCEPT ![r] = "done"]
            /\ UNCHANGED raised
       ELSE /\ pc' = [pc EXCEPT ![r] = "raised"]
            /\ raised' = [raised EXCEPT ![r] = "PersistenceFault"]
    /\ UNCHANGED <<task_description, task_id, code, valid, report, deploy_status,
                   deploy_success, tasks, agent_calls>>

\* The capability a run is suspended in.
Awaited(stage) ==
    CASE stage = "generating" -> "generate"
      [] stage = "validating" -> "validate"
      [] stage = "deploying" -> "deploy"
      [] stage = "summarizing" -> "summarize"

\* Bug variant: the first failure of a capability is caught and the same call
\* is made once more; only a second failure propagates.
capability_raises_retry(r) ==
    /\ pc[r] \in {"generating", "validating", "deploying", "summarizing"}
    /\ LET again == \A i \in 1..Len(calls[r]) : calls[r][i].ev # "raise"
           call == calls[r][Len(calls[r])]
       IN IF again
          THEN /\ calls' = [calls EXCEPT ![r] =
                               @ \o <<Ev("raise", Awaited(pc[r]), <<>>), call>>]
               /\ UNCHANGED <<raised, pc>>
          ELSE /\ calls' = [calls EXCEPT ![r] = Append(@, Ev("raise", Awaited(pc[r]), <<>>))]
               /\ raised' = [raised EXCEPT ![r] = "CapabilityFault"]
               /\ pc' = [pc EXCEPT ![r] = "raised"]
    /\ UNCHANGED <<history, locals, result, store, agent_calls>>

\* The awaited capability raises.  execute has no handler, so the exception
\* leaves execute; process_task's `except Exception` logs it and re-raises.
capability_raises(r) ==
    /\ pc[r] \in {"generating", "validating", "deploying", "summarizing"}
    /\ calls' = [calls EXCEPT ![r] = Append(@, Ev("raise", Awaited(pc[r]), <<>>))]
    /\ raised' = [raised EXCEPT ![r] = "CapabilityFault"]
    /\ pc' = [pc EXCEPT ![r] = "raised"]
    /\ UNCHANGED <<history, locals, result, store, agent_calls>>

\* A run is between its call and its return or raise.
InFlight(r) == pc[r] \in {"generating", "validating", "deploying", "summarizing"}

Step(r) ==
    \/ generate_returns(r, generate_code(task_description[r]))
    \/ \E vr \in ValidationReports : validate_returns(r, vr[1], vr[2])
    \/ \E d \in DeploymentOutcomes : deploy_returns(r, d[1], d[2])
    \/ \E s \in Summaries, fail \in StoreFaults : summarize_returns(r, s, fail)
    \/ capability_raises(r)

\* AutoDevCrew as shipped: the agent wrappers (main.py 113-123) call plain
\* functions and never suspend, and the callers (main.py 186, 256) await each
\* process_task, so a run starts only when no other run is in flight.
Next ==
    \E r \in Runs :
        \/ /\ \A q \in Runs : ~InFlight(q)
           /\ \E d \in Descriptions, saved \in BOOLEAN : process_task(r, d, saved)
        \/ Step(r)

Spec == Init /\ [][Next]_vars

\* The host cancels the task running process_task while execute is suspended
\* in a capability: CancelledError is raised at the await.  It is not an
\* Exception, so it passes process_task's `except Exception` and leaves
\* process_task; the statements after the await (the four save_* calls
\* included) do not run.
cancel(r) ==
    /\ InFlight(r)
    /\ raised' = [raised EXCEPT ![r] = "CancelledError"]
    /\ pc' = [pc EXCEPT ![r] = "cancelled"]
    /\ UNCHANGED <<history, locals, result, calls, store, agent_calls>>

\* The same program with its scheduling: a capability that was awaited
\* completes (it returns or raises) and the event loop then resumes the
\* coroutine that awaits it, so a step of a run in flight is not postponed
\* for ever.
LiveSpec == Spec /\ \A r \in Runs : WF_vars(Step(r))

\* Orchestrator with injected capabilities that suspend: a run may start
\* while other runs are suspended at an await, and a suspended run may be
\* cancelled.
ConcNext ==
    \E r \in Runs :
        \/ \E d \in Descriptions, saved \in BOOLEAN : process_task(r, d, saved)
        \/ Step(r)
        \/ cancel(r)

ConcSpec == Init /\ [][ConcNext]_vars

\* ------------------------------------------- agents/tester_agent.py
\* Longest artifact text given to validate_code.
MaxLen == 6

\* An artifact text is a sequence of characters: a space, a newline, or "x",
\* which stands for any character that is not whitespace.
Chars == {" ", "\n", "x"}
Texts == UNION {[1..k -> Chars] : k \in 0..MaxLen}

IsSpace(c) == c \in {" ", "\n"}

\* str.strip(): leading and trailing whitespace removed.
RECURSIVE lstrip(_)
lstrip(t) == IF t # <<>> /\ IsSpace(Head(t)) THEN lstrip(Tail(t)) ELSE t
RECURSIVE rstrip(_)
rstrip(t) == IF t # <<>> /\ IsSpace(t[Len(t)]) THEN rstrip(SubSeq(t, 1, Len(t) - 1)) ELSE t
strip(t) == rstrip(lstrip(t))

\* len(code.split('\n'))
NumLines(t) == 1 + Cardinality({i \in 1..Len(t) : t[i] = "\n"})

\* What ast.parse(code) does: it returns, raises SyntaxError (e.lineno is a
\* line of the text, or None, written 0, when the parser has no line, as for
\* a text holding a null byte), or raises another Exception (ValueError,
\* UnicodeEncodeError, RecursionError, MemoryError).
ParseOutcomes(t) ==
    {[kind |-> "ok", lineno |-> 0], [kind |-> "Exception", lineno |-> 0]}
    \cup {[kind |-> "SyntaxError", lineno |-> n] : n \in 0..NumLines(t)}

\* The truth of `"login" in code.lower() or "auth" in code.lower()`: possible
\* only in a text with four adjacent non-whitespace characters.
KeywordOutcomes(t) ==
    IF \E i \in 1..(Len(t) - 3) : \A j \in i..(i + 3) : t[j] = "x"
    THEN BOOLEAN ELSE {FALSE}

\* The complexity line is added to the report above this many lines.
ComplexityLines == 5

\* The lines of the report of an artifact that parsed.
PassedReport(src, kw) ==
    << <<"Syntax Check: PASSED", 0>> >>
    \o (IF kw THEN << <<"Context Verification", 0>> >> ELSE <<>>)
    \o (IF NumLines(src) > ComplexityLines
        THEN << <<"Complexity", NumLines(src)>> >> ELSE <<>>)

\* What a call of an agent function ends with: a returned pair or a raise.
ReturnPair(ok, text) == [raised |-> FALSE, ok |-> ok, text |-> text]
Raise == [raised |-> TRUE, ok |-> FALSE, text |-> <<>>]

\* Bug variant: only the empty string is rejected before parsing, a
\* whitespace-only artifact goes on to ast.parse (which accepts it).
validate_code_nostrip(src, parse, kw) ==
    IF src = <<>>
    THEN ReturnPair(FALSE, << <<"Error: No code provided for validation.", 0>> >>)
    ELSE IF Len(strip(src)) = 0 THEN ReturnPair(TRUE, PassedReport(src, kw))
    ELSE CASE parse.kind = "ok" -> ReturnPair(TRUE, PassedReport(src, kw))
           [] parse.kind = "SyntaxError" ->
                  ReturnPair(FALSE, << <<"Syntax Error", parse.lineno>> >>)
           [] parse.kind = "Exception" -> ReturnPair(FALSE, << <<"Generic Error", 0>> >>)

\* Bug variant: only SyntaxError is handled, another exception escapes.
validate_code_syntax_only(src, parse, kw) ==
    IF src = <<>> \/ Len(strip(src)) = 0
    THEN ReturnPair(FALSE, << <<"Error: No code provided for validation.", 0>> >>)
    ELSE CASE parse.kind = "ok" -> ReturnPair(TRUE, PassedReport(src, kw))
           [] parse.kind = "SyntaxError" ->
                  ReturnPair(FALSE, << <<"Syntax Error", parse.lineno>> >>)
           [] parse.kind = "Exception" -> Raise

\* validate_code(code): the blank check, then ast.parse inside try/except.
\* The report is a list of lines, each a text and the number it carries (0:
\* none; for "Syntax Error" the e.lineno printed after "at line").
validate_code(src, parse, kw) ==
    IF src = <<>> \/ Len(strip(src)) = 0
    THEN ReturnPair(FALSE, << <<"Error: No code provided for validation.", 0>> >>)
    ELSE CASE parse.kind = "ok" -> ReturnPair(TRUE, PassedReport(src, kw))
           [] parse.kind = "SyntaxError" ->
                  ReturnPair(FALSE, << <<"Syntax Error", parse.lineno>> >>)
           [] parse.kind = "Exception" -> ReturnPair(FALSE, << <<"Generic Error", 0>> >>)

\* One call of validate_code on a text, with what ast.parse does on it.  The
\* function keeps no state, so one call per behaviour covers it.
validate_code_call(src, parse, kw) ==
    /\ validation = None
    /\ validation' = Some([code |-> src, parse |-> parse, kw |-> kw,
                           out |-> validate_code(src, parse, kw)])
    /\ UNCHANGED <<history, pc, locals, result, raised, calls, store, deployment,
                   recorded, storage_call, session, privacy>>

TesterNext ==
    \E src \in Texts : \E parse \in ParseOutcomes(src), kw \in KeywordOutcomes(src) :
        validate_code_call(src, parse, kw)

\* validate_code applied to every text up to MaxLen characters.
TesterSpec == Init /\ [][TesterNext]_vars

\* ------------------------------------------------ devops_agent.build_and_deploy

\* Exit statuses of `python -m pytest <file>` (pytest's ExitCode 0..5; 1 is
\* also the status of `python -m pytest` when pytest is not installed) and of
\* `python <file>` (0, 1 for an uncaught exception, 2 for sys.exit(2)).
PytestExitCodes == 0..5
ExecExitCodes == 0..2

\* The statuses of the test step that build_and_deploy lets through.
TestsPassedCodes == {0, 5}

\* What subprocess.run(..., capture_output=True, text=True) does: it returns
\* a CompletedProcess (exit status, whether stdout and stderr hold text), or
\* raises an Exception (OSError, UnicodeDecodeError), or raises a
\* BaseException that is not an Exception (KeyboardInterrupt).
Completed(codes) ==
    {[kind |-> "completed", returncode |-> rc, stdout |-> o, stderr |-> e] :
        rc \in codes, o \in BOOLEAN, e \in BOOLEAN}
Raising ==
    {[kind |-> k, returncode |-> 0, stdout |-> FALSE, stderr |-> FALSE] :
        k \in {"Exception", "KeyboardInterrupt"}}
RunOutcomes(codes) == Completed(codes) \cup Raising

\* What the host does during one call: whether NamedTemporaryFile creates
\* the file, whether f.write(code) and the close of the `with` succeed, and
\* the outcome of each subprocess; a step the call does not reach has None.
Environments ==
    {[create |-> "raises", write |-> None, test |-> None, exec |-> None]}
    \cup {[create |-> "ok", write |-> Some("raises"), test |-> None, exec |-> None]}
    \cup {[create |-> "ok", write |-> Some("ok"), test |-> Some(t), exec |-> None] :
            t \in {t \in RunOutcomes(PytestExitCodes) :
                      t.kind # "completed" \/ t.returncode \notin TestsPassedCodes}}
    \cup {[create |-> "ok", write |-> Some("ok"), test |-> Some(t), exec |-> Some(x)] :
            t \in {t \in Completed(PytestExitCodes) : t.returncode \in TestsPassedCodes},
            x \in RunOutcomes(ExecExitCodes)}

\* f"{test_result.stderr or test_result.stdout}"
StderrOrStdout(p) == IF p.stderr THEN "stderr" ELSE IF p.stdout THEN "stdout" ELSE ""

\* output_log after the execution phase.
ExecLog(x) ==
    <<"--- Testing Phase ---", "Tests Passed (or none found).", "--- Execution Phase ---">>
    \o (IF x.stdout THEN <<"STDOUT">> ELSE <<>>)
    \o (IF x.stderr THEN <<"STDERR">> ELSE <<>>)
    \o (IF ~x.stdout /\ ~x.stderr THEN <<"Code executed with no direct output.">> ELSE <<>>)
    \o <<"Deployed to Virtual Environment!">>

\* The try block: the test step, its exit status check, the execution step
\* (whose exit status is not looked at), and the two except outcomes.
TryBlock(env) ==
    LET t == env.test[1] IN
    IF t.kind = "KeyboardInterrupt" THEN Raise
    ELSE IF t.kind = "Exception" THEN ReturnPair(FALSE, <<"Deployment error">>)
    ELSE IF t.returncode \notin TestsPassedCodes
    THEN ReturnPair(FALSE, <<"--- Testing Phase ---", "Tests Failed", StderrOrStdout(t)>>)
    ELSE LET x == env.exec[1] IN
         IF x.kind = "KeyboardInterrupt" THEN Raise
         ELSE IF x.kind = "Exception" THEN ReturnPair(FALSE, <<"Deployment error">>)
         ELSE ReturnPair(TRUE, ExecLog(x))

\* build_and_deploy(code): the temporary file is created and written before
\* the try statement; the finally clause removes it (os.unlink is taken to
\* succeed).  `temp` says what became of the exec_*.py file.
build_and_deploy(env) ==
    IF env.create = "raises" THEN [out |-> Raise, temp |-> "never created"]
    ELSE IF env.write[1] = "raises" THEN [out |-> Raise, temp |-> "exists"]
    ELSE [out |-> TryBlock(env), temp |-> "removed"]

\* One call of build_and_deploy on an artifact, in one environment.
build_and_deploy_call(src, env) ==
    /\ deployment = None
    /\ deployment' = Some([code |-> src, env |-> env] @@ build_and_deploy(env))
    /\ UNCHANGED <<history, pc, locals, result, raised, calls, store, validation,
                   recorded, storage_call, session, privacy>>

DevOpsNext ==
    \E src \in Artifacts, env \in Environments : build_and_deploy_call(src, env)

\* build_and_deploy applied in every environment.
DevOpsSpec == Init /\ [][DevOpsNext]_vars

\* ------------------------------------------------------- db/storage.py
\* The most rows final_reports is filled with by direct calls.
MaxReports == 2

\* Task ids the storage functions are called with, texts of the report field,
\* and what a summary record may hold besides its report: an entry whose key
\* is a str or an int and whose value is an int, a tuple or a set.
ReportIds == {1, 2}
ReportTexts == {"report A", "report B"}
ExtraKeys == {PyStr("files"), PyInt("1")}
ExtraValues == {PyInt("3"), PyTuple("a.py"), PySet("a.py")}
SummaryRecords ==
    {SummaryRecord(t) : t \in ReportTexts}
    \cup {SummaryRecord(t) \o << <<k, v>> >> :
            t \in ReportTexts, k \in ExtraKeys, v \in ExtraValues}

\* Bug variant: the SELECT has no WHERE clause.
MatchingRowsAny(tbl, id) == 1..Len(tbl)

\* SELECT ... FROM final_reports WHERE task_id = ?
MatchingRows(tbl, id) == {i \in 1..Len(tbl) : tbl[i].task_id = id}

\* The read that ends a sequence of direct calls has been made.
ReadDone == IF storage_call = None THEN FALSE ELSE storage_call[1].op = "get_task_summary"

\* save_final_report(task_id, summary) called directly: json.dumps, then the
\* INSERT.  When json.dumps raises nothing is stored.
call_save_final_report(id, s) ==
    /\ ~ReadDone
    /\ Len(final_reports) < MaxReports
    /\ IF Serializable(s)
       THEN /\ final_reports' = save_final_report(final_reports, id, s)
            /\ recorded' = Append(recorded, [task_id |-> id, summary |-> s])
            /\ storage_call' = Some([op |-> "save_final_report", task_id |-> id,
                                     raised |-> FALSE, out |-> None])
       ELSE /\ storage_call' = Some([op |-> "save_final_report", task_id |-> id,
                                     raised |-> TRUE, out |-> None])
            /\ UNCHANGED <<final_reports, recorded>>
    /\ UNCHANGED <<history, pc, locals, result, raised, calls, tasks, generated_code,
                   test_logs, deployment_logs, validation, deployment, session, privacy>>

\* get_task_summary(task_id): fetchone() of the SELECT, json.loads of its
\* summary column, or None when no row matches.  The SELECT has no ORDER BY,
\* so with several matching rows any of them may be the one fetched.
call_get_task_summary(id) ==
    /\ ~ReadDone
    /\ LET rows == MatchingRows(final_reports, id) IN
       \/ /\ rows = {}
          /\ storage_call' = Some([op |-> "get_task_summary", task_id |-> id,
                                   raised |-> FALSE, out |-> None])
       \/ \E i \in rows :
              storage_call' = Some([op |-> "get_task_summary", task_id |-> id,
                                    raised |-> FALSE,
                                    out |-> Some(json_loads(final_reports[i].value))])
    /\ UNCHANGED <<history, pc, locals, result, raised, calls, store, validation,
                   deployment, recorded, session, privacy>>

StorageNext ==
    \E id \in ReportIds :
        \/ \E s \in SummaryRecords : call_save_final_report(id, s)
        \/ call_get_task_summary(id)

\* The storage functions called directly, a read after some writes.
StorageSpec == Init /\ [][StorageNext]_vars

\* ------------------------------------------------- ui/streamlit_app.py
\* The Execution Flow of the Streamlit script, one script run after the form
\* is submitted.  The script calls the agent functions directly, one after
\* another; each action is the stretch of the script from one call to the
\* next.

\* The status the script sets when validation failed.
SkippedStatus == "Skipped"

\* The writes of the script's "Save to Memory Layer" block, in program order:
\* 1 save_task, 2 save_code, 3 save_test_log, 4 save_deployment_log,
\* 5 save_final_report; fail = k: write k raises.
SessionFaults == 0..5

\* Bug variant: the task row is saved as soon as the form is submitted.
session_submit_saving(d) ==
    /\ session.pc = "idle"
    /\ d # ""
    /\ tasks' = save_task(tasks, d)
    /\ session' = [session EXCEPT !.pc = "generating", !.task_desc = d,
                                  !.task_id = lastrowid(tasks),
                                  !.calls = <<Ev("call", "generate", <<d>>)>>]
    /\ UNCHANGED <<history, pc, locals, result, raised, calls, generated_code, test_logs,
                   deployment_logs, final_reports, validation, deployment, recorded,
                   storage_call, privacy>>

\* `if submit_btn and task_desc:` with a description that is not empty: the
\* script calls generate_code(task_desc).
session_submit(d) ==
    /\ session.pc = "idle"
    /\ d # ""
    /\ session' = [session EXCEPT !.pc = "generating", !.task_desc = d,
                                  !.calls = <<Ev("call", "generate", <<d>>)>>]
    /\ UNCHANGED <<history, pc, locals, result, raised, calls, store, validation,
                   deployment, recorded, storage_call, privacy>>

\* generate_code returned c: validate_code(code) is called.
session_generate_returns(c) ==
    /\ session.pc = "generating"
    /\ session' = [session EXCEPT !.pc = "validating", !.code = c,
                                  !.calls = @ \o <<Ev("return", "generate", <<c>>),
                                                   Ev("call", "validate", <<c>>)>>]
    /\ UNCHANGED <<history, pc, locals, result, raised, calls, store, validation,
                   deployment, recorded, storage_call, privacy>>

\* validate_code returned (v, rep).  With valid true build_and_deploy(code) is
\* called; otherwise the status stays "Skipped" and summarize_task is called.
session_validate_returns(v, rep) ==
    /\ session.pc = "validating"
    /\ LET ret == Ev("return", "validate", <<v, rep>>) IN
       IF v
       THEN session' = [session EXCEPT
                !.pc = "deploying", !.valid = v, !.test_results = rep,
                !.deploy_success = FALSE, !.deploy_status = SkippedStatus,
                !.calls = @ \o <<ret, Ev("call", "deploy", <<session.code>>)>>]
       ELSE session' = [session EXCEPT
                !.pc = "summarizing", !.valid = v, !.test_results = rep,
                !.deploy_success = FALSE, !.deploy_status = SkippedStatus,
                !.calls = @ \o <<ret, Ev("call", "summarize",
                                         <<session.task_desc, session.code, rep,
                                           SkippedStatus>>)>>]
    /\ UNCHANGED <<history, pc, locals, result, raised, calls, store, validation,
                   deployment, recorded, storage_call, privacy>>

\* build_and_deploy returned (ds, log): summarize_task is called.
session_deploy_returns(ds, log) ==
    /\ session.pc = "deploying"
    /\ session' = [session EXCEPT
           !.pc = "summarizing", !.deploy_success = ds, !.deploy_status = log,
           !.calls = @ \o <<Ev("return", "deploy", <<ds, log>>),
                            Ev("call", "summarize",
                               <<session.task_desc, session.code, session.test_results,
                                 log>>)>>]
    /\ UNCHANGED <<history, pc, locals, result, raised, calls, store, validation,
                   deployment, recorded, storage_call, privacy>>

\* summarize_task returned s: the "Save to Memory Layer" block runs.  A write
\* that raises is caught by `except Exception` and shown with st.warning; the
\* script goes on to show the results.
session_summarize_returns(s, fail) ==
    /\ session.pc = "summarizing"
    /\ LET id == IF Written(fail, 1) THEN lastrowid(tasks) ELSE 0 IN
       /\ tasks' = IF Written(fail, 1) THEN save_task(tasks, session.task_desc) ELSE tasks
       /\ generated_code' = IF Written(fail, 2)
                            THEN save_row(generated_code, id, session.code)
                            ELSE generated_code
       /\ test_logs' = IF Written(fail, 3)
                       THEN save_row(test_logs, id, session.test_results)
                       ELSE test_logs
       /\ deployment_logs' = IF Written(fail, 4)
                             THEN save_row(deployment_logs, id, session.deploy_status)
                             ELSE deployment_logs
       /\ final_reports' = IF Written(fail, 5)
                           THEN save_final_report(final_reports, id, SummaryRecord(s))
                           ELSE final_reports
       /\ session' = [session EXCEPT
              !.pc = "shown", !.summary = s, !.task_id = id,
              !.selected_task = IF fail = 0 THEN id ELSE 0,
              !.warning = (fail # 0),
              !.calls = Append(@, Ev("return", "summarize", <<s>>))]
    /\ UNCHANGED <<history, pc, locals, result, raised, calls, validation, deployment,
                   recorded, storage_call, privacy>>

\* The agent function the script is in raises: nothing in the script catches
\* it, the script run ends there and Streamlit shows the exception.
session_capability_raises ==
    /\ session.pc \in {"generating", "validating", "deploying", "summarizing"}
    /\ session' = [session EXCEPT
           !.pc = "error",
           !.calls = Append(@, Ev("raise", Awaited(session.pc), <<>>))]
    /\ UNCHANGED <<history, pc, locals, result, raised, calls, store, validation,
                   deployment, recorded, storage_call, privacy>>

\* The run of Orchestrator.execute the script run is compared with.
Reference == 1

\* One process_task run and one script run over the same Task Store, one
\* after the other in either order: the script is synchronous, so nothing
\* else runs between its submit and its end.
UiNext ==
    \/ /\ session.pc \in {"idle", "shown", "error"}
       /\ \/ \E d \in Descriptions, saved \in BOOLEAN : process_task(Reference, d, saved)
          \/ Step(Reference)
    \/ /\ ~InFlight(Reference)
       /\ \E d \in Descriptions : session_submit(d)
    \/ session_generate_returns(generate_code(session.task_desc))
    \/ \E vr \in ValidationReports : session_validate_returns(vr[1], vr[2])
    \/ \E d \in DeploymentOutcomes : session_deploy_returns(d[1], d[2])
    \/ \E s \in Summaries, fail \in SessionFaults : session_summarize_returns(s, fail)
    \/ session_capability_raises

UiSpec == Init /\ [][UiNext]_vars

\* ------------------------------------------------ core/privacy_manager.py
\* PrivacyLevel.
PrivacyLevels == {"strict", "moderate", "open"}

\* Longest operation text, in words.
MaxWords == 2

\* An operation is a text of words.  What matters of a word is which of the
\* substrings "download", "api", "http" it holds: "rapid" holds "api",
\* "https" holds "http", and "Download" holds none (the test is case
\* sensitive).  A substring cannot span two words.
Words == {"download", "api", "https", "rapid", "Download", "read"}
Operations == UNION {[1..k -> Words] : k \in 0..MaxWords}
AgentNames == {"Engineer", "Tester", "DevOps", "Summarizer"}

\* `"download" in w or "api" in w or "http" in w` for a word w.
HoldsKeyword(w) == w \in {"download", "api", "https", "rapid"}

\* PrivacyManager._requires_external(operation)
requires_external(operation) ==
    \E i \in 1..Len(operation) : HoldsKeyword(operation[i])

\* PrivacyManager.ensure_local_execution(agent_name, operation) of a manager
\* with the given privacy_level: the value returned, and whether the call
\* replaced socket.socket by the blocking class.
ensure_local_execution(level, agent_name, operation) ==
    CASE level = "strict" -> [allowed |-> TRUE, socket_blocked |-> TRUE]
      [] level = "moderate" ->
             [allowed |-> ~requires_external(operation), socket_blocked |-> FALSE]
      [] OTHER -> [allowed |-> TRUE, socket_blocked |-> FALSE]

\* The same question put to a manager of each privacy level.
ensure_local_execution_call(agent_name, operation) ==
    /\ privacy = None
    /\ privacy' = Some([agent_name |-> agent_name, operation |-> operation,
                        answer |-> [l \in PrivacyLevels |->
                                       ensure_local_execution(l, agent_name, operation)]])
    /\ UNCHANGED <<history, pc, locals, result, raised, calls, store, validation,
                   deployment, recorded, storage_call, session>>

PrivacyNext ==
    \E a \in AgentNames, op \in Operations : ensure_local_execution_call(a, op)

\* ensure_local_execution asked about every agent name and operation.
PrivacySpec == Init /\ [][PrivacyNext]_vars

\* ------------------------------------------------------------- observers
\* The events of run r of kind ev on capability cap, in order.
Events(r, ev, cap) ==
    SelectSeq(calls[r], LAMBDA e : e.ev = ev /\ e.cap = cap)

\* The capability returned in run r / the value it returned.
Returned(r, cap) == Len(Events(r, "return", cap)) > 0
ReturnValue(r, cap) == Events(r, "return", cap)[1].data

\* The (sender, receiver) pairs of a message list.
Pairs(h) == [i \in 1..Len(h) |-> <<h[i].sender, h[i].receiver>>]

\* The five handoffs of one run.
Handoffs == << <<"User", "Engineer">>, <<"Engineer", "Tester">>,
               <<"Tester", "DevOps">>, <<"DevOps", "Summarizer">>,
               <<"Summarizer", "User">> >>

\* execute returned a result in run r.
ExecuteReturned(r) == result[r] # None

\* The number of rows of table tbl written for task id.
RowsFor(tbl, id) == Cardinality({i \in 1..Len(tbl) : tbl[i].task_id = id})

\* The number of Task Store rows (the tasks row included) run r has inserted.
WritesOf(r) ==
    IF task_id[r] = 0 THEN 0
    ELSE 1 + RowsFor(generated_code, task_id[r]) + RowsFor(test_logs, task_id[r])
           + RowsFor(deployment_logs, task_id[r]) + RowsFor(final_reports, task_id[r])

\* ------------------------------------------------------------------ claims

\* C1: every result execute returns, on the first and on every later call of
\* process_task on the same instance, has a history of exactly the five
\* handoffs User->Engineer, Engineer->Tester, Tester->DevOps,
\* DevOps->Summarizer, Summarizer->User, in that order.
C1_HistoryIsFiveHandoffs ==
    \A r \in Runs : ExecuteReturned(r) => Pairs(result[r][1].history) = Handoffs

\* C2: whenever validate returned valid = false, deploy is never invoked, the
\* deployment success flag is false and the deployment status is exactly
\* "Blocked: Code Validation Failed", in the run's state and in its result.
C2_GateBlocksDeploy ==
    \A r \in Runs :
        (Returned(r, "validate") /\ ReturnValue(r, "validate")[1] = FALSE) =>
            /\ Len(Events(r, "call", "deploy")) = 0
            /\ deploy_success[r] = FALSE
            /\ deploy_status[r] = "Blocked: Code Validation Failed"
            /\ ExecuteReturned(r) =>
                   /\ result[r][1].deployment_status = "Blocked: Code Validation Failed"
                   /\ result[r][1].success = FALSE

\* A run whose validation failed returned its result.
C2_Witness ==
    \E r \in Runs :
        /\ pc[r] = "done"
        /\ ReturnValue(r, "validate")[1] = FALSE

\* C3: the overall success of a returned result is true exactly when validate
\* returned valid = true and deploy returned success = true; it is false for
\* every other combination, the gated one (deploy not called) included.
C3_OverallSuccess ==
    \A r \in Runs :
        ExecuteReturned(r) =>
            result[r][1].success =
                (/\ ReturnValue(r, "validate")[1] = TRUE
                 /\ Returned(r, "deploy")
                 /\ ReturnValue(r, "deploy")[1] = TRUE)

\* One run returned overall success, another was valid with a failed deploy.
C3_Witness ==
    \E r, q \in Runs :
        /\ pc[r] = "done" /\ result[r][1].success = TRUE
        /\ pc[q] = "done" /\ result[q][1].success = FALSE
        /\ ReturnValue(q, "validate")[1] = TRUE

\* C4: when a capability raises in a run started by process_task, the
\* failure reaches the caller and the Task Store has received no write of
\* that run: no row in tasks, generated_code, test_logs, deployment_logs or
\* final_reports.
C4_NoWriteWhenCapabilityRaises ==
    \A r \in Runs :
        raised[r] = "CapabilityFault" => (pc[r] = "raised" /\ WritesOf(r) = 0)

\* C5: every Task Store write of a run, save_task included, happens after
\* execute has returned the complete result of that run.
C5_WritesOnlyAfterResult ==
    \A r \in Runs : WritesOf(r) > 0 => ExecuteReturned(r)

\* C6: the history of the result a run returns holds only messages recorded
\* by that run, also when runs interleave at the capability awaits.
C6_HistoryOwnedByRun ==
    \A r \in Runs :
        ExecuteReturned(r) =>
            \A i \in 1..Len(result[r][1].history) : result[r][1].history[i].run = r

\* The tasks row and the four artifact rows of one run.
AllWrites == 5

\* C7: when a Task Store write fails after execute returned (the result
\* exists and not all artifact rows of the run were written), process_task
\* still returns the computed result to its caller instead of raising.
C7_WriteFailureStillReturns ==
    \A r \in Runs :
        (ExecuteReturned(r) /\ WritesOf(r) < AllWrites) =>
            (pc[r] = "done" /\ raised[r] = "none")

\* The run recorded the DevOps -> Summarizer handoff: it reached the
\* summarizing stage.
ReachedSummarizing(r) ==
    \E i \in 1..Len(history) :
        history[i].run = r /\ history[i].receiver = "Summarizer"

\* C8: in every run that reaches the summarizing stage summarize is invoked
\* exactly once, whatever validate and deploy returned; when validation
\* failed it is invoked with the status "Blocked: Code Validation Failed".
C8_SummarizeOnce ==
    \A r \in Runs :
        ReachedSummarizing(r) =>
            /\ Len(Events(r, "call", "summarize")) = 1
            /\ ReturnValue(r, "validate")[1] = FALSE =>
                   Events(r, "call", "summarize")[1].data[4]
                       = "Blocked: Code Validation Failed"

\* Two finished runs reached summarizing, one blocked by validation and one
\* after a deploy that returned.
C8_Witness ==
    \E r, q \in Runs :
        /\ ExecuteReturned(r) /\ ReturnValue(r, "validate")[1] = FALSE
        /\ ExecuteReturned(q) /\ Returned(q, "deploy")

\* The (event, capability) pairs of the capability events of run r.
Shape(r) ==
    LET cs == SelectSeq(calls[r], LAMBDA e : e.ev # "handoff")
    IN [i \in 1..Len(cs) |-> <<cs[i].ev, cs[i].cap>>]

\* C9: in a run where validate returned valid = true and no capability
\* raised, generate, validate, deploy and summarize are each invoked exactly
\* once, in that order, each call returning before the next one starts; and
\* at every moment of any run a call is followed by its own return or raise
\* before another call is made.
C9_OneCallEachInOrder ==
    \A r \in Runs :
        /\ \A i \in 1..Len(calls[r]) :
               (calls[r][i].ev = "call" /\ i < Len(calls[r])) =>
                   /\ calls[r][i + 1].ev \in {"return", "raise"}
                   /\ calls[r][i + 1].cap = calls[r][i].cap
        /\ (ExecuteReturned(r) /\ ReturnValue(r, "validate")[1] = TRUE) =>
               Shape(r) = << <<"call", "generate">>, <<"return", "generate">>,
                             <<"call", "validate">>, <<"return", "validate">>,
                             <<"call", "deploy">>, <<"return", "deploy">>,
                             <<"call", "summarize">>, <<"return", "summarize">> >>

\* A valid run returned.
C9_Witness ==
    \E r \in Runs : pc[r] = "done" /\ ReturnValue(r, "validate")[1] = TRUE

\* The capabilities of the chain.
Capabilities == {"generate", "validate", "deploy", "summarize"}

\* C10: when a capability raises, execute raises to its caller and returns no
\* result, the raise is the last capability event of the run (nothing after
\* the failing capability is invoked), and no capability is invoked twice;
\* a result, when there is one, has every field set.
C10_RaiseOrCompleteResult ==
    \A r \in Runs :
        /\ \A i \in 1..Len(calls[r]) :
               calls[r][i].ev = "raise" =>
                   /\ i = Len(calls[r])
                   /\ pc[r] = "raised"
                   /\ raised[r] = "CapabilityFault"
                   /\ result[r] = None
        /\ \A cap \in Capabilities : Len(Events(r, "call", cap)) <= 1
        /\ ExecuteReturned(r) =>
               /\ result[r][1].success \in BOOLEAN
               /\ result[r][1].task = task_description[r]
               /\ result[r][1].task \in Descriptions
               /\ result[r][1].generated_code \in Artifacts
               /\ result[r][1].test_report # Unset
               /\ result[r][1].deployment_status # Unset
               /\ result[r][1].summary \in Summaries
               /\ Len(result[r][1].history) > 0

\* One run was aborted by a capability that raised after generate had
\* returned, another returned a result.
C10_Witness ==
    \E r, q \in Runs :
        /\ raised[r] = "CapabilityFault" /\ Returned(r, "generate")
        /\ pc[q] = "done"

\* The handoff execute records before it invokes capability cap.
HandoffBefore(cap) ==
    CASE cap = "generate" -> <<"User", "Engineer">>
      [] cap = "validate" -> <<"Engineer", "Tester">>
      [] cap = "deploy" -> <<"Tester", "DevOps">>
      [] cap = "summarize" -> <<"DevOps", "Summarizer">>

\* Event i of run r is the handoff sender -> receiver.
IsHandoff(r, i, pair) ==
    /\ i \in 1..Len(calls[r])
    /\ calls[r][i].ev = "handoff"
    /\ calls[r][i].data = pair

\* C11: every capability call is immediately preceded by the record of the
\* handoff to it (User->Engineer before generate, Engineer->Tester before
\* validate, Tester->DevOps before deploy, DevOps->Summarizer before
\* summarize); DevOps->Summarizer always comes after Tester->DevOps; and
\* Summarizer->User is recorded only right after summarize has returned.
C11_HandoffBeforeCall ==
    \A r \in Runs : \A i \in 1..Len(calls[r]) :
        /\ calls[r][i].ev = "call" => IsHandoff(r, i - 1, HandoffBefore(calls[r][i].cap))
        /\ IsHandoff(r, i, <<"DevOps", "Summarizer">>) =>
               \E j \in 1..(i - 1) : IsHandoff(r, j, <<"Tester", "DevOps">>)
        /\ IsHandoff(r, i, <<"Summarizer", "User">>) =>
               /\ i > 1
               /\ calls[r][i - 1].ev = "return"
               /\ calls[r][i - 1].cap = "summarize"

\* A run that deployed and a run that was gated both recorded all five
\* handoffs.
C11_Witness ==
    \E r, q \in Runs :
        /\ pc[r] = "done" /\ Returned(r, "deploy")
        /\ pc[q] = "done" /\ ~Returned(q, "deploy")

\* The contents of the messages run r recorded, in order.
ContentsOf(r) ==
    LET mine == SelectSeq(history, LAMBDA m : m.run = r)
    IN [i \in 1..Len(mine) |-> mine[i].content]

\* The deployment status of run r as the capabilities produced it: the log
\* deploy returned, or the synthesized status when deploy was not called.
StatusOf(r) ==
    IF Returned(r, "deploy") THEN ReturnValue(r, "deploy")[2]
    ELSE "Blocked: Code Validation Failed"

\* The arguments of the call of cap in run r.
Args(r, cap) == Events(r, "call", cap)[1].data

\* The call of cap was made in run r.
Called(r, cap) == Len(Events(r, "call", cap)) > 0

\* C12: values flow through execute unmodified.  generate receives the
\* description given to process_task (the empty one included); validate and
\* deploy receive the artifact generate returned; summarize receives
\* (description, artifact, report, deployment status); the five messages of
\* the run carry description, artifact, report, status and summary in that
\* order; and the result fields hold those same values.
C12_ValuesFlowUnmodified ==
    \A r \in Runs :
        LET description == tasks[task_id[r]]
            artifact == ReturnValue(r, "generate")[1]
            rep == ReturnValue(r, "validate")[2]
            status == StatusOf(r)
            s == ReturnValue(r, "summarize")[1]
        IN /\ Called(r, "generate") => Args(r, "generate") = <<description>>
           /\ Called(r, "validate") => Args(r, "validate") = <<artifact>>
           /\ Called(r, "deploy") => Args(r, "deploy") = <<artifact>>
           /\ Called(r, "summarize") =>
                  Args(r, "summarize") = <<description, artifact, rep, status>>
           /\ ExecuteReturned(r) =>
                  /\ ContentsOf(r) = <<description, artifact, rep, status, s>>
                  /\ result[r][1].task = description
                  /\ result[r][1].generated_code = artifact
                  /\ result[r][1].test_report = rep
                  /\ result[r][1].deployment_status = status
                  /\ result[r][1].summary = s

\* A run with the empty description and a run with a non-empty one both
\* returned, one of them after a deploy.
C12_Witness ==
    \E r, q \in Runs :
        /\ pc[r] = "done" /\ result[r][1].task = ""
        /\ pc[q] = "done" /\ result[q][1].task # "" /\ Returned(q, "deploy")

\* validate_code was called on a blank (empty or whitespace-only) artifact.
BlankValidated ==
    /\ validation # None
    /\ Len(strip(validation[1].code)) = 0

\* C13: for the empty artifact, and for every whitespace-only artifact,
\* validate_code returns without raising, with valid = false and an
\* explanatory report; with that flag the gate of execute does not invoke
\* deploy and the overall success is false whatever deploy would return.
C13_BlankArtifactInvalid ==
    BlankValidated =>
        /\ validation[1].out.raised = FALSE
        /\ validation[1].out.ok = FALSE
        /\ validation[1].out.text = << <<"Error: No code provided for validation.", 0>> >>
        /\ ~ShouldDeploy(validation[1].out.ok)
        /\ \A ds \in BOOLEAN : OverallSuccess(validation[1].out.ok, ds) = FALSE

\* validate_code was called on a non-empty artifact of whitespace only.
C13_Witness ==
    /\ BlankValidated
    /\ Len(validation[1].code) > 1

\* build_and_deploy was called and the call is over.
Deployed == deployment # None

\* The test step ended with a status build_and_deploy counts as a failure
\* (neither 0 nor 5, "no tests collected").
TestStepFailed(d) ==
    /\ d.env.test # None
    /\ d.env.test[1].kind = "completed"
    /\ d.env.test[1].returncode \notin TestsPassedCodes

\* The execution step ran and ended with a non-zero exit status.
ExecStepFailed(d) ==
    /\ d.env.exec # None
    /\ d.env.exec[1].kind = "completed"
    /\ d.env.exec[1].returncode # 0

\* The log carries diagnostics of a failed step: the "Tests Failed" line or
\* the captured STDERR of the execution.
HasDiagnostics(log) ==
    \E i \in 1..Len(log) : log[i] \in {"Tests Failed", "STDERR", "STDOUT"}

\* C14: when the test step or the execution step ends with a non-zero
\* (failure) exit status, build_and_deploy returns success = false with the
\* diagnostics in the log; it returns success = true only when the test step
\* passed and the execution step ended with status 0.
C14_NonZeroExitFails ==
    Deployed =>
        LET d == deployment[1] IN
        /\ (TestStepFailed(d) \/ ExecStepFailed(d)) =>
               /\ ~d.out.raised
               /\ d.out.ok = FALSE
               /\ HasDiagnostics(d.out.text)
        /\ (~d.out.raised /\ d.out.ok) =>
               /\ ~TestStepFailed(d)
               /\ ~ExecStepFailed(d)

\* C15: after build_and_deploy has returned or raised, the exec_*.py file it
\* created no longer exists, whichever step succeeded, failed or raised.
C15_NoTempFileLeft ==
    Deployed => deployment[1].temp # "exists"

\* C16: build_and_deploy never raises: every internal failure, a failure
\* while creating or writing the temporary file and a failure to launch a
\* subprocess included, comes back as the pair (success = false, log).
C16_DeployNeverRaises ==
    Deployed =>
        /\ ~deployment[1].out.raised
        /\ (\/ deployment[1].env.create = "raises"
            \/ deployment[1].env.write = Some("raises")
            \/ (deployment[1].env.test # None /\ deployment[1].env.test[1].kind # "completed")
            \/ (deployment[1].env.exec # None /\ deployment[1].env.exec[1].kind # "completed"))
           => deployment[1].out.ok = FALSE

\* validate_code was called and the call is over.
Validated == validation # None

\* The artifact is not blank and ast.parse accepted it.
ParsesNonBlank(v) == Len(strip(v.code)) > 0 /\ v.parse.kind = "ok"

\* validate_code met a SyntaxError in an artifact that is not blank.
SyntaxErrorSeen(v) == Len(strip(v.code)) > 0 /\ v.parse.kind = "SyntaxError"

\* The part of C17 that does not depend on the line: validate_code never
\* raises, valid = true exactly for a non-blank artifact that parses, and
\* any other failure raised while checking gives valid = false.
TotalAndClassified(v) ==
    /\ ~v.out.raised
    /\ v.out.ok = ParsesNonBlank(v)
    /\ (Len(strip(v.code)) > 0 /\ v.parse.kind = "Exception") =>
           (v.out.ok = FALSE /\ v.out.text = << <<"Generic Error", 0>> >>)

\* C17 as stated: validate_code is total and never raises, valid = true only
\* for a non-blank artifact that parses, and for a syntax error the report
\* names the line of the defect (a line of the artifact).
C17_ReportNamesLine ==
    Validated =>
        LET v == validation[1] IN
        /\ TotalAndClassified(v)
        /\ SyntaxErrorSeen(v) =>
               /\ v.out.ok = FALSE
               /\ \E n \in 1..NumLines(v.code) : v.out.text = << <<"Syntax Error", n>> >>

\* C17 (amended): validate_code is total and never raises, valid = true only
\* for a non-blank artifact that parses, any other failure gives
\* valid = false, and for a syntax error the report carries the e.lineno of
\* the parser, which is a line of the artifact or None (written 0) when the
\* parser has no line for the defect.
C17_ReportCarriesParserLine ==
    Validated =>
        LET v == validation[1] IN
        /\ TotalAndClassified(v)
        /\ SyntaxErrorSeen(v) =>
               /\ v.out.ok = FALSE
               /\ v.out.text = << <<"Syntax Error", v.parse.lineno>> >>
               /\ v.parse.lineno \in 0..NumLines(v.code)

\* validate_code met a SyntaxError that has no line.
C17_Witness ==
    /\ Validated
    /\ SyntaxErrorSeen(validation[1])
    /\ validation[1].parse.lineno = 0
    /\ validation[1].out.ok = FALSE

\* s is a prefix of t: same entries, field by field, in the same places.
IsPrefix(s, t) == Len(s) <= Len(t) /\ SubSeq(t, 1, Len(s)) = s

\* The number of _add_to_history calls in the spy logs of all runs.
RECURSIVE CountHandoffs(_, _)
CountHandoffs(cs, rs) ==
    IF rs = {} THEN 0
    ELSE LET r == CHOOSE x \in rs : TRUE IN
         Cardinality({i \in 1..Len(cs[r]) : cs[r][i].ev = "handoff"})
             + CountHandoffs(cs, rs \ {r})

\* C18: Orchestrator.history is append-only over any sequence of execute
\* calls, completed or aborted: every step leaves the earlier history as a
\* prefix of the new one (nothing removed, reordered or changed) and adds
\* exactly one entry for each _add_to_history call of the step.
C18_HistoryAppendOnly ==
    [][/\ IsPrefix(history, history')
       /\ Len(history') - Len(history)
              = CountHandoffs(calls', Runs) - CountHandoffs(calls, Runs)]_vars

\* The history holds the entries of an aborted run and, after them, the
\* five entries of a later run that completed.
C18_Witness ==
    \E r \in Runs, q \in Runs :
        /\ pc[r] = "raised"
        /\ pc[q] = "done"
        /\ \E i \in 1..Len(history), j \in 1..Len(history) :
               i < j /\ history[i].run = r /\ history[j].run = q

\* Bug variant: the result refers to the Orchestrator's own list, so its
\* history reads as whatever self.history holds now.
ResultHistoryAliased(r) == history

\* What the history of the result returned for run r reads as: the list
\* built from self.history when the result was made.
ResultHistory(r) == result[r][1].history

\* C19: once execute has returned a result, no later operation on the same
\* Orchestrator (further execute calls, completed or aborted) changes that
\* result: its history keeps its length, order and contents and every other
\* field keeps its value.
C19_ResultImmutable ==
    [][\A r \in Runs :
           result[r] # None =>
               /\ result'[r] = result[r]
               /\ ResultHistory(r)' = ResultHistory(r)]_vars

\* A run returned its result and a later execute call has since recorded
\* messages in the Orchestrator's history.
C19_Witness ==
    \E r \in Runs :
        /\ result[r] # None
        /\ Len(history) > Len(ResultHistory(r))

\* C20: when the host cancels a run of process_task at a suspension point
\* inside execute, nothing of that run is persisted: no save_code,
\* save_test_log, save_deployment_log or save_final_report row, and no
\* record of the run in the Task Store at all.
C20_CancelledRunNotPersisted ==
    \A r \in Runs : pc[r] = "cancelled" => WritesOf(r) = 0

\* The place of a stage in the order IDLE, GENERATING, VALIDATING, DEPLOYING,
\* SUMMARIZING, DONE; a run that was aborted is past all of them.
StageRank(stage) ==
    CASE stage = "idle" -> 0
      [] stage = "generating" -> 1
      [] stage = "validating" -> 2
      [] stage = "deploying" -> 3
      [] stage = "summarizing" -> 4
      [] stage = "done" -> 5
      [] OTHER -> 6

\* The capability calls of run r that have neither returned nor raised.
PendingCalls(r) ==
    Cardinality({i \in 1..Len(calls[r]) : calls[r][i].ev = "call"})
        - Cardinality({i \in 1..Len(calls[r]) : calls[r][i].ev \in {"return", "raise"}})

\* C21: a run moves through IDLE, GENERATING, VALIDATING, DEPLOYING,
\* SUMMARIZING, DONE strictly forward (no stage is entered twice), with at
\* most one capability in flight, the one of its stage (no branch beside
\* another); and a run that has started eventually returns its result unless
\* a capability raises.
C21_ForwardAndTerminates ==
    /\ [][\A r \in Runs :
              pc'[r] # pc[r] => StageRank(pc'[r]) > StageRank(pc[r])]_vars
    /\ [](\A r \in Runs :
              /\ PendingCalls(r) = (IF InFlight(r) THEN 1 ELSE 0)
              /\ InFlight(r) => calls[r][Len(calls[r])].cap = Awaited(pc[r]))
    /\ \A r \in Runs :
           (pc[r] = "generating") ~> (ExecuteReturned(r) \/ raised[r] = "CapabilityFault")

\* A run went through the deploying stage and returned its result.
C21_Witness ==
    \E r \in Runs :
        /\ ExecuteReturned(r)
        /\ pc[r] = "done"
        /\ Returned(r, "deploy")

\* The ids save_task has handed out so far.
TaskIds == 1..Len(tasks)

\* C22: the Task Store never holds a partial result: each task id has either
\* all four artifact records (generated_code, test_logs, deployment_logs,
\* final_reports) or none of them, also after a capability raised or a
\* save_* write failed.
C22_AllOrNothing ==
    \A id \in TaskIds :
        LET n == <<RowsFor(generated_code, id), RowsFor(test_logs, id),
                   RowsFor(deployment_logs, id), RowsFor(final_reports, id)>>
        IN (\A k \in 1..4 : n[k] = 0) \/ (\A k \in 1..4 : n[k] > 0)

\* The runs whose save_task returned an id.
TaskCreated(r) == task_id[r] # 0

\* C23: each call of process_task creates exactly one Task (none when
\* save_task itself raises), the id save_task returns is different from the
\* id of every Task created earlier, and the description of a created Task
\* is never modified or deleted afterwards.
C23_OneTaskPerCall ==
    /\ [](\A r \in Runs :
              /\ pc[r] # "idle" /\ ~TaskCreated(r) => raised[r] = "PersistenceFault"
              /\ TaskCreated(r) =>
                     /\ task_id[r] \in TaskIds
                     /\ tasks[task_id[r]] = task_description[r]
                     /\ \A q \in Runs \ {r} : task_id[q] # task_id[r])
    /\ [](Len(tasks) = Cardinality({r \in Runs : TaskCreated(r)}))
    /\ [][IsPrefix(tasks, tasks')]_vars

\* Two runs with the same description have each created a Task of their own
\* and the first of them is over.
C23_Witness ==
    \E r \in Runs, q \in Runs :
        /\ r # q
        /\ TaskCreated(r) /\ TaskCreated(q)
        /\ task_description[r] = task_description[q]
        /\ task_id[r] < task_id[q]
        /\ pc[r] \in {"done", "raised"}

\* get_task_summary was called and has returned.
Fetched == ReadDone

\* The summary records save_final_report was given for a task id and stored.
SavedFor(id) ==
    {recorded[i].summary : i \in {i \in 1..Len(recorded) : recorded[i].task_id = id}}

\* A record that json.dumps writes without changing a type: str keys, and
\* values that are str, int or list.
JsonNative(s) ==
    \A i \in 1..Len(s) : s[i][1][1] = "str" /\ s[i][2][1] \in {"str", "int", "list"}

EntriesOf(h, r) == {i \in 1..Len(h) : h[i].run = r}

\* C25: when a capability raised during execute, the handoffs the aborted
\* run had recorded are not in Orchestrator.history any more and are in the
\* history of no result returned afterwards.
C25_AbortLeavesNoHandoffs ==
    \A r \in Runs :
        raised[r] = "CapabilityFault" =>
            /\ EntriesOf(history, r) = {}
            /\ \A q \in Runs :
                   ExecuteReturned(q) => EntriesOf(result[q][1].history, r) = {}

\* The values of the rows of table tbl written for task id, in row order.
ValuesFor(tbl, id) ==
    LET rows == SelectSeq(tbl, LAMBDA row : row.task_id = id)
    IN [i \in 1..Len(rows) |-> rows[i].value]

\* C26: after a process_task run that returned, the Task Store holds for the
\* run's task id exactly one generated_code, one test_logs, one
\* deployment_logs and one final_reports record, holding the generated_code,
\* test_report, deployment_status and (serialized) summary of the returned
\* result; and they are written in that order: at no time does a run have a
\* record in a later table without one in every earlier table.
C26_FourRecordsOfResult ==
    \A r \in Runs :
        /\ pc[r] = "done" =>
               /\ ExecuteReturned(r)
               /\ ValuesFor(generated_code, task_id[r]) = <<result[r][1].generated_code>>
               /\ ValuesFor(test_logs, task_id[r]) = <<result[r][1].test_report>>
               /\ ValuesFor(deployment_logs, task_id[r]) = <<result[r][1].deployment_status>>
               /\ ValuesFor(final_reports, task_id[r])
                      = <<json_dumps(SummaryRecord(result[r][1].summary))>>
        /\ TaskCreated(r) =>
               /\ RowsFor(test_logs, task_id[r]) <= RowsFor(generated_code, task_id[r])
               /\ RowsFor(deployment_logs, task_id[r]) <= RowsFor(test_logs, task_id[r])
               /\ RowsFor(final_reports, task_id[r]) <= RowsFor(deployment_logs, task_id[r])

\* Two runs returned, one with success and one without, and each has its
\* final_reports record.
C26_Witness ==
    \E r \in Runs, q \in Runs :
        /\ pc[r] = "done" /\ pc[q] = "done"
        /\ task_id[r] # task_id[q]
        /\ result[r][1].success /\ ~result[q][1].success
        /\ RowsFor(final_reports, task_id[r]) = 1
        /\ RowsFor(final_reports, task_id[q]) = 1

\* The capability calls of a spy log, and what the capabilities returned.
CallsIn(log) == SelectSeq(log, LAMBDA e : e.ev = "call")
ReturnsIn(log) == SelectSeq(log, LAMBDA e : e.ev = "return")

\* The script run and the Reference run of execute both went through all
\* their stages, on the same description and with the same outputs of
\* generate, validate, deploy and summarize.
SameOutputs ==
    /\ session.pc = "shown"
    /\ ExecuteReturned(Reference)
    /\ session.task_desc = task_description[Reference]
    /\ ReturnsIn(session.calls) = ReturnsIn(calls[Reference])

\* C27: for the same outputs of the four capabilities the Streamlit script
\* and Orchestrator.execute make the same capability calls in the same order
\* with the same arguments and end with the same deployment success and the
\* same deployment status, the one synthesized when validation fails
\* included.
C27_SessionEqualsExecute ==
    SameOutputs =>
        /\ CallsIn(session.calls) = CallsIn(calls[Reference])
        /\ session.deploy_success = deploy_success[Reference]
        /\ session.deploy_status = deploy_status[Reference]

\* The Task Store rows the script run has written.
SessionWrites ==
    IF session.task_id = 0 THEN 0
    ELSE 1 + RowsFor(generated_code, session.task_id)
           + RowsFor(test_logs, session.task_id)
           + RowsFor(deployment_logs, session.task_id)
           + RowsFor(final_reports, session.task_id)

\* C28: in the Streamlit script no Task Store write happens before all four
\* stages have completed: every step of the script before the return of
\* summarize_task leaves the Task Store as it is, and a script run ended by a
\* capability that raised has written nothing; the writes are made in the
\* order save_task, save_code, save_test_log, save_deployment_log,
\* save_final_report (a later table never has a row of the run when an
\* earlier one has none); and a write that fails ends in a warning, not in
\* an exception: the script run still reaches the display of its results.
C28_SessionWritesAtEnd ==
    /\ [][(session' # session /\ session'.pc # "shown") => store' = store]_vars
    /\ [](session.pc # "shown" => SessionWrites = 0)
    /\ [](session.pc = "error" =>
              session.calls[Len(session.calls)].ev = "raise" /\ ~session.warning)
    /\ [](session.pc = "shown" =>
              /\ Len(ReturnsIn(session.calls)) \in {3, 4}
              /\ session.warning = (SessionWrites < AllWrites)
              /\ session.task_id # 0 =>
                     /\ tasks[session.task_id] = session.task_desc
                     /\ RowsFor(test_logs, session.task_id)
                            <= RowsFor(generated_code, session.task_id)
                     /\ RowsFor(deployment_logs, session.task_id)
                            <= RowsFor(test_logs, session.task_id)
                     /\ RowsFor(final_reports, session.task_id)
                            <= RowsFor(deployment_logs, session.task_id))

\* A script run whose save_test_log failed: the task and the code are
\* stored, the warning is shown, and the run came after a process_task run
\* that had written to the same store.
C28_Witness ==
    /\ session.pc = "shown"
    /\ session.warning
    /\ SessionWrites = 2
    /\ session.task_id > 1

\* C29: ensure_local_execution is monotone in the privacy level: for every
\* agent name and operation, an operation blocked (False) at MODERATE is not
\* allowed (True) at the stricter STRICT, and an operation allowed at STRICT
\* is allowed at MODERATE and at OPEN.
C29_MonotoneInLevel ==
    privacy # None =>
        LET a == privacy[1].answer IN
        /\ ~a["moderate"].allowed => ~a["strict"].allowed
        /\ a["strict"].allowed => (a["moderate"].allowed /\ a["open"].allowed)

=============================================================================
